---- MODULE Spec2Model ----
(***************************************************************************)
(* greed-staking: a custodial staking program (Anchor / Solana).           *)
(*                                                                         *)
(* One stake pool per token mint holds a vault token account; every        *)
(* depositor has one UserStake record per pool.  The program exposes three *)
(* instructions: initialize, stake and unstake.  An instruction is one     *)
(* transaction: the account constraints of its Accounts struct are checked *)
(* first, then the handler runs, and an error anywhere discards every      *)
(* change made so far.                                                     *)
(*                                                                         *)
(* The model follows the pool of one mint (PoolMint).  The SPL token       *)
(* program is not part of this repository: its ledger is modelled as the   *)
(* transfer collaborator the handlers call, with natural-number balances;  *)
(* a transfer fails on a wrong authority, a mint mismatch or insufficient  *)
(* funds and moves nothing when it fails.                                  *)
(***************************************************************************)
EXTENDS Integers, FiniteSets, Sequences, TLC

\* The largest value of the 64-bit unsigned fields (total_staked, amount,
\* the amount argument), scaled down so that the overflow boundary is reached.
U64_MAX == 3

\* The clock runs from 1 to MaxTime.
MaxTime == 2

Users == {"u1", "u2"}

\* Pubkey::default(), the owner field of a freshly allocated UserStake.
DefaultPubkey == "default"

PoolMint == "mintA"
OtherMint == "mintB"

\* The vault PDA, seeds [b"vault", token_mint]; it is its own token authority.
VaultKey == "vault"

\* The token accounts of the ledger: one per user for the pool's mint, one of
\* a foreign mint, and the vault.
TokenAccounts == {"t1", "t2", "tB", VaultKey}

TokenOwner(t) ==
    CASE t = "t1" -> "u1"
      [] t = "t2" -> "u2"
      [] t = "tB" -> "u1"
      [] OTHER -> VaultKey

TokenMint(t) == IF t = "tB" THEN OtherMint ELSE PoolMint

\* What a depositor's token account holds at the start: enough for one
\* depositor to fill the pool and for the next deposit to cross U64_MAX.  The
\* second depositor starts with this much or with a single token.
InitBalance == U64_MAX + 1

\* The UserStake PDA, seeds [b"user_stake", stake_pool, user].
UserStakePda(u) == <<"user_stake", "stake_pool", u>>

UserStakeKeys == {UserStakePda(u) : u \in Users}

\* The canonical bump of a PDA (ctx.bumps.*): a fixed function of the seeds.
FindBump(key) ==
    CASE key = "stake_pool" -> 255
      [] key = VaultKey -> 254
      [] key = UserStakePda("u1") -> 253
      [] OTHER -> 252

VARIABLES
    stake_pool,   \* the StakePool account
    user_stake,   \* the UserStake accounts, by address
    token,        \* the token ledger: balance of every token account
    now,          \* Clock::get()?.unix_timestamp
    last          \* the last instruction: its signer, its transfer, its result

vars == <<stake_pool, user_stake, token, now, last>>

\* The accounts an instruction can touch, as one value.
State == [stake_pool |-> stake_pool, user_stake |-> user_stake,
          token |-> token, now |-> now]

\* An account that does not exist yet reads as all zeroes once allocated.
ZeroUserStake == [exists |-> FALSE, owner |-> DefaultPubkey, amount |-> 0,
                  staked_at |-> 0, bump |-> 0]

ZeroStakePool == [exists |-> FALSE, authority |-> DefaultPubkey,
                  token_mint |-> DefaultPubkey, vault |-> DefaultPubkey,
                  total_staked |-> 0, bump |-> 0, vault_bump |-> 0]

Ok(st) == [err |-> "Ok", st |-> st]
Err(st, e) == [err |-> e, st |-> st]

\* u64::wrapping_add in place of checked_add.
wrapping_add(a, b) == [some |-> TRUE, val |-> (a + b) % (U64_MAX + 1)]

\* u64::checked_add / checked_sub: None outside 0..U64_MAX.
checked_add(a, b) ==
    IF a + b > U64_MAX THEN [some |-> FALSE, val |-> 0]
    ELSE [some |-> TRUE, val |-> a + b]

checked_sub(a, b) ==
    IF b > a THEN [some |-> FALSE, val |-> 0]
    ELSE [some |-> TRUE, val |-> a - b]

\* token::transfer(from, to, authority, amount) on the ledger `tok`.
transfer(tok, from, to, authority, amount) ==
    IF TokenOwner(from) # authority THEN [err |-> "OwnerMismatch", token |-> tok]
    ELSE IF TokenMint(from) # TokenMint(to) THEN [err |-> "MintMismatch", token |-> tok]
    ELSE IF tok[from] < amount THEN [err |-> "InsufficientFunds", token |-> tok]
    ELSE IF from = to THEN [err |-> "Ok", token |-> tok]
    ELSE [err |-> "Ok",
          token |-> [tok EXCEPT ![from] = @ - amount, ![to] = @ + amount]]

\* Initialize with init_if_needed in place of init on stake_pool.
Initialize_ifNeeded(s, caller, authority) ==
    IF authority # caller THEN Err(s, "AccountNotSigner")
    ELSE IF s.stake_pool.exists THEN Ok(s)
    ELSE Ok([s EXCEPT !.stake_pool = [ZeroStakePool EXCEPT !.exists = TRUE]])

\* #[derive(Accounts)] Initialize: both PDAs are created with `init`.
Initialize(s, caller, authority) ==
    IF authority # caller THEN Err(s, "AccountNotSigner")
    ELSE IF s.stake_pool.exists THEN Err(s, "AccountAlreadyInUse")
    ELSE Ok([s EXCEPT !.stake_pool = [ZeroStakePool EXCEPT !.exists = TRUE]])

\* pub fn initialize
initialize(s, caller, authority) ==
    LET acc == Initialize(s, caller, authority) IN
    IF acc.err # "Ok" THEN acc
    ELSE Ok([acc.st EXCEPT !.stake_pool =
                [@ EXCEPT !.authority = authority,
                          !.token_mint = PoolMint,
                          !.vault = VaultKey,
                          !.total_staked = 0,
                          !.bump = FindBump("stake_pool"),
                          !.vault_bump = FindBump(VaultKey)]])

\* #[derive(Accounts)] StakeTokens: user signs; user_stake is init_if_needed at
\* the PDA of (stake_pool, user); user_token_account is owned by user and of
\* the pool's mint.
StakeTokens(s, caller, user, user_stake_key, user_token_account) ==
    IF user # caller THEN Err(s, "AccountNotSigner")
    ELSE IF ~s.stake_pool.exists THEN Err(s, "AccountNotInitialized")
    ELSE IF user_stake_key # UserStakePda(user) THEN Err(s, "ConstraintSeeds")
    ELSE LET s1 == IF s.user_stake[user_stake_key].exists THEN s
                   ELSE [s EXCEPT !.user_stake[user_stake_key] =
                            [ZeroUserStake EXCEPT !.exists = TRUE]]
         IN IF TokenOwner(user_token_account) # user THEN Err(s1, "ConstraintRaw")
            ELSE IF TokenMint(user_token_account) # s.stake_pool.token_mint
                 THEN Err(s1, "ConstraintRaw")
            ELSE Ok(s1)

\* stake without its require!.
stake_require_skipped(amount) == TRUE

\* require!(amount > 0, StakingError::ZeroAmount)
stake_require(amount) == amount > 0

\* The new amount overwrites the position instead of being added to it.
UpdateUserStake_overwrite(us, user, key, clock, amount) ==
    LET us1 == IF us.amount = 0
               THEN [us EXCEPT !.owner = user, !.staked_at = clock]
               ELSE [us EXCEPT !.staked_at = clock]
    IN [some |-> TRUE,
        val |-> [us1 EXCEPT !.amount = amount, !.bump = FindBump(key)]]

\* The bump is never stored in the position.
UpdateUserStake_noBump(us, user, key, clock, amount) ==
    LET us1 == IF us.amount = 0
               THEN [us EXCEPT !.owner = user, !.staked_at = clock]
               ELSE [us EXCEPT !.staked_at = clock]
        sum == checked_add(us1.amount, amount)
    IN IF ~sum.some THEN [some |-> FALSE, val |-> us1]
       ELSE [some |-> TRUE, val |-> [us1 EXCEPT !.amount = sum.val]]

\* staked_at is written on a new stake only: a top-up keeps the earlier time.
UpdateUserStake_keepsTime(us, user, key, clock, amount) ==
    LET us1 == IF us.amount = 0
               THEN [us EXCEPT !.owner = user, !.staked_at = clock]
               ELSE us
        sum == checked_add(us1.amount, amount)
    IN IF ~sum.some THEN [some |-> FALSE, val |-> us1]
       ELSE [some |-> TRUE,
             val |-> [us1 EXCEPT !.amount = sum.val, !.bump = FindBump(key)]]

\* "Update user stake": the owner is written on a new stake only, staked_at on
\* every stake; the amount is credited with checked_add and the bump stored.
\* None (some = FALSE) when the addition overflows.
UpdateUserStake(us, user, key, clock, amount) ==
    LET us1 == IF us.amount = 0
               THEN [us EXCEPT !.owner = user, !.staked_at = clock]
               ELSE [us EXCEPT !.staked_at = clock]
        sum == checked_add(us1.amount, amount)
    IN IF ~sum.some THEN [some |-> FALSE, val |-> us1]
       ELSE [some |-> TRUE,
             val |-> [us1 EXCEPT !.amount = sum.val, !.bump = FindBump(key)]]

\* stake forgets the pool total.
CreditPoolTotal_skipped(pool, amount) == [some |-> TRUE, val |-> pool]

\* The pool total is credited with wrapping_add: no Overflow is raised.
CreditPoolTotal_wrapping(pool, amount) ==
    [some |-> TRUE,
     val |-> [pool EXCEPT !.total_staked = wrapping_add(@, amount).val]]

\* The pool total is assigned the amount instead of being increased by it.
CreditPoolTotal_overwrites(pool, amount) ==
    [some |-> TRUE, val |-> [pool EXCEPT !.total_staked = amount]]

\* The pool credit also stores a bump in the pool, as the line before it does
\* in the position.
CreditPoolTotal_writesBump(pool, amount) ==
    LET tot == checked_add(pool.total_staked, amount) IN
    IF ~tot.some THEN [some |-> FALSE, val |-> pool]
    ELSE [some |-> TRUE,
          val |-> [pool EXCEPT !.total_staked = tot.val, !.bump = pool.vault_bump]]

\* "Update pool total" of stake.
CreditPoolTotal(pool, amount) ==
    LET tot == checked_add(pool.total_staked, amount) IN
    IF ~tot.some THEN [some |-> FALSE, val |-> pool]
    ELSE [some |-> TRUE, val |-> [pool EXCEPT !.total_staked = tot.val]]

\* stake drops the result of token::transfer instead of returning it with `?`.
stake_ignoresTransferError(s, caller, user, user_stake_key, user_token_account, amount) ==
    LET acc == StakeTokens(s, caller, user, user_stake_key, user_token_account) IN
    IF acc.err # "Ok" THEN acc
    ELSE IF ~stake_require(amount) THEN Err(acc.st, "ZeroAmount")
    ELSE LET tr == transfer(acc.st.token, user_token_account, VaultKey, user, amount)
             s1 == [acc.st EXCEPT !.token = tr.token]
             us == UpdateUserStake(s1.user_stake[user_stake_key], user,
                                   user_stake_key, s1.now, amount)
             s2 == [s1 EXCEPT !.user_stake[user_stake_key] = us.val]
         IN IF ~us.some THEN Err(s2, "Overflow")
            ELSE LET pool == CreditPoolTotal(s2.stake_pool, amount) IN
                 IF ~pool.some THEN Err(s2, "Overflow")
                 ELSE Ok([s2 EXCEPT !.stake_pool = pool.val])

\* pub fn stake
stake(s, caller, user, user_stake_key, user_token_account, amount) ==
    LET acc == StakeTokens(s, caller, user, user_stake_key, user_token_account) IN
    IF acc.err # "Ok" THEN acc
    ELSE IF ~stake_require(amount) THEN Err(acc.st, "ZeroAmount")
    ELSE LET tr == transfer(acc.st.token, user_token_account, VaultKey, user, amount) IN
         IF tr.err # "Ok" THEN Err(acc.st, tr.err)
         ELSE LET s1 == [acc.st EXCEPT !.token = tr.token]
                  us == UpdateUserStake(s1.user_stake[user_stake_key], user,
                                        user_stake_key, s1.now, amount)
                  s2 == [s1 EXCEPT !.user_stake[user_stake_key] = us.val]
              IN IF ~us.some THEN Err(s2, "Overflow")
                 ELSE LET pool == CreditPoolTotal(s2.stake_pool, amount) IN
                      IF ~pool.some THEN Err(s2, "Overflow")
                      ELSE Ok([s2 EXCEPT !.stake_pool = pool.val])

\* Unstake without the owner constraint on user_token_account.
Unstake_anyTokenAccount(s, caller, user, user_stake_key, user_token_account) ==
    IF user # caller THEN Err(s, "AccountNotSigner")
    ELSE IF ~s.stake_pool.exists THEN Err(s, "AccountNotInitialized")
    ELSE IF ~s.user_stake[user_stake_key].exists THEN Err(s, "AccountNotInitialized")
    ELSE IF \/ user_stake_key # UserStakePda(user)
            \/ s.user_stake[user_stake_key].bump # FindBump(user_stake_key)
         THEN Err(s, "ConstraintSeeds")
    ELSE IF s.user_stake[user_stake_key].owner # user THEN Err(s, "ConstraintRaw")
    ELSE IF TokenMint(user_token_account) # s.stake_pool.token_mint
         THEN Err(s, "ConstraintRaw")
    ELSE Ok(s)

\* Unstake without the seeds and owner constraints on user_stake.
Unstake_anyPosition(s, caller, user, user_stake_key, user_token_account) ==
    IF user # caller THEN Err(s, "AccountNotSigner")
    ELSE IF ~s.stake_pool.exists THEN Err(s, "AccountNotInitialized")
    ELSE IF ~s.user_stake[user_stake_key].exists THEN Err(s, "AccountNotInitialized")
    ELSE IF TokenOwner(user_token_account) # user THEN Err(s, "ConstraintRaw")
    ELSE IF TokenMint(user_token_account) # s.stake_pool.token_mint
         THEN Err(s, "ConstraintRaw")
    ELSE Ok(s)

\* #[derive(Accounts)] Unstake: user signs; user_stake must exist at the PDA of
\* (stake_pool, user) with its stored bump and have owner == user.
Unstake(s, caller, user, user_stake_key, user_token_account) ==
    IF user # caller THEN Err(s, "AccountNotSigner")
    ELSE IF ~s.stake_pool.exists THEN Err(s, "AccountNotInitialized")
    ELSE IF ~s.user_stake[user_stake_key].exists THEN Err(s, "AccountNotInitialized")
    ELSE IF \/ user_stake_key # UserStakePda(user)
            \/ s.user_stake[user_stake_key].bump # FindBump(user_stake_key)
         THEN Err(s, "ConstraintSeeds")
    ELSE IF s.user_stake[user_stake_key].owner # user THEN Err(s, "ConstraintRaw")
    ELSE IF TokenOwner(user_token_account) # user THEN Err(s, "ConstraintRaw")
    ELSE IF TokenMint(user_token_account) # s.stake_pool.token_mint
         THEN Err(s, "ConstraintRaw")
    ELSE Ok(s)

\* unstake without its require!.
unstake_require_skipped(amount) == TRUE

\* require!(amount > 0, StakingError::NoStake)
unstake_require(amount) == amount > 0

\* unstake forgets the pool total.
DebitPoolTotal_skipped(pool, amount) == [some |-> TRUE, val |-> pool]

\* "Update pool total" of unstake.
DebitPoolTotal(pool, amount) ==
    LET tot == checked_sub(pool.total_staked, amount) IN
    IF ~tot.some THEN [some |-> FALSE, val |-> pool]
    ELSE [some |-> TRUE, val |-> [pool EXCEPT !.total_staked = tot.val]]

\* Only the amount is reset.
ResetUserStake_keepsTime(us) == [us EXCEPT !.amount = 0]

\* unstake closes the position account instead of zeroing it.
ResetUserStake_closes(us) == ZeroUserStake

\* Only staked_at is reset: the amount stays.
ResetUserStake_keepsAmount(us) == [us EXCEPT !.staked_at = 0]

\* "Reset user stake".
ResetUserStake(us) == [us EXCEPT !.amount = 0, !.staked_at = 0]

\* pub fn unstake
unstake(s, caller, user, user_stake_key, user_token_account) ==
    LET acc == Unstake(s, caller, user, user_stake_key, user_token_account) IN
    IF acc.err # "Ok" THEN acc
    ELSE LET amount == acc.st.user_stake[user_stake_key].amount IN
         IF ~unstake_require(amount) THEN Err(acc.st, "NoStake")
         ELSE LET tr == transfer(acc.st.token, VaultKey, user_token_account,
                                 VaultKey, amount) IN
              IF tr.err # "Ok" THEN Err(acc.st, tr.err)
              ELSE LET s1 == [acc.st EXCEPT !.token = tr.token]
                       pool == DebitPoolTotal(s1.stake_pool, amount)
                   IN IF ~pool.some THEN Err(s1, "Underflow")
                      ELSE Ok([s1 EXCEPT
                                 !.stake_pool = pool.val,
                                 !.user_stake[user_stake_key] = ResetUserStake(@)])

\* The transaction boundary: an instruction that returns Err leaves no trace,
\* one that returns Ok(()) commits what it wrote.
Commit(s, r) == IF r.err = "Ok" THEN r.st ELSE s

\* The tokens the instruction's transfer moved into or out of the vault before
\* the instruction returned: 0 when it returned before its transfer.
Moved(s, r) ==
    IF r.st.token[VaultKey] >= s.token[VaultKey]
    THEN r.st.token[VaultKey] - s.token[VaultKey]
    ELSE s.token[VaultKey] - r.st.token[VaultKey]

Init ==
    /\ stake_pool = ZeroStakePool
    /\ user_stake = [k \in UserStakeKeys |-> ZeroUserStake]
    /\ \E poor \in {1, InitBalance} :
         token = [t \in TokenAccounts |->
                    IF t = VaultKey THEN 0 ELSE IF t = "t2" THEN poor ELSE InitBalance]
    /\ now = 1
    /\ last = [op |-> "none", user |-> DefaultPubkey, moved |-> 0, err |-> "Ok"]

InitializeIx ==
    \E caller \in Users, authority \in Users :
        \E r \in {initialize(State, caller, authority)} :
        \E post \in {Commit(State, r)} :
           /\ stake_pool' = post.stake_pool
           /\ user_stake' = post.user_stake
           /\ token' = post.token
           /\ last' = [op |-> "initialize", user |-> caller,
                       moved |-> Moved(State, r), err |-> r.err]
           /\ UNCHANGED now

StakeIx ==
    \E caller \in Users, user \in Users, k \in UserStakeKeys,
       t \in TokenAccounts, amount \in 0..U64_MAX :
        \E r \in {stake(State, caller, user, k, t, amount)} :
        \E post \in {Commit(State, r)} :
           /\ stake_pool' = post.stake_pool
           /\ user_stake' = post.user_stake
           /\ token' = post.token
           /\ last' = [op |-> "stake", user |-> caller,
                       moved |-> Moved(State, r), err |-> r.err]
           /\ UNCHANGED now

UnstakeIx ==
    \E caller \in Users, user \in Users, k \in UserStakeKeys, t \in TokenAccounts :
        \E r \in {unstake(State, caller, user, k, t)} :
        \E post \in {Commit(State, r)} :
           /\ stake_pool' = post.stake_pool
           /\ user_stake' = post.user_stake
           /\ token' = post.token
           /\ last' = [op |-> "unstake", user |-> caller,
                       moved |-> Moved(State, r), err |-> r.err]
           /\ UNCHANGED now

\* The clock is monotonically non-decreasing.
Tick ==
    /\ now < MaxTime
    /\ now' = now + 1
    /\ UNCHANGED <<stake_pool, user_stake, token, last>>

Next == InitializeIx \/ StakeIx \/ UnstakeIx \/ Tick

Spec == Init /\ [][Next]_vars

(***************************************************************************)
(* Properties.                                                             *)
(***************************************************************************)

RECURSIVE SumAmounts(_, _)
SumAmounts(us, keys) ==
    IF keys = {} THEN 0
    ELSE LET k == CHOOSE x \in keys : TRUE
         IN us[k].amount + SumAmounts(us, keys \ {k})

\* The pool-mint token accounts a depositor can name as user_token_account.
AccountsOf(u) == {t \in TokenAccounts : TokenOwner(t) = u /\ TokenMint(t) = PoolMint}

\* C1: in every reachable state the pool's total_staked is the sum of the
\* amounts of all user positions of the pool.
C1_TotalStakedIsSum ==
    stake_pool.total_staked = SumAmounts(user_stake, UserStakeKeys)

\* Both depositors hold a stake and an instruction has just failed.
C1_Witness ==
    /\ \A k \in UserStakeKeys : user_stake[k].amount > 0
    /\ last.op \in {"stake", "unstake"}
    /\ last.err # "Ok"

\* C2: with the vault moved only by stake and unstake, the vault's token
\* balance equals total_staked and covers every single position.
C2_VaultEqualsTotalStaked ==
    /\ token[VaultKey] = stake_pool.total_staked
    /\ \A k \in UserStakeKeys : user_stake[k].amount <= token[VaultKey]

\* An unstake has paid out and the vault still holds another position.
C2_Witness ==
    /\ last.op = "unstake"
    /\ last.err = "Ok"
    /\ token[VaultKey] > 0

\* C3: a successful unstake of a position holding a > 0 moves exactly a tokens
\* from the vault to the depositor's token account, leaves amount = 0 and
\* staked_at = 0 and lowers total_staked by a; a stake of a into an empty
\* position followed at once by unstake gives back exactly a.
C3_UnstakeWithdrawsAll ==
    /\ \A caller \in Users, user \in Users, k \in UserStakeKeys, t \in TokenAccounts :
        \A r \in {unstake(State, caller, user, k, t)} :
            r.err = "Ok" =>
                LET post == Commit(State, r)
                    a == user_stake[k].amount
                IN /\ a > 0
                   /\ t \in AccountsOf(caller)
                   /\ post.token = [token EXCEPT ![VaultKey] = @ - a, ![t] = @ + a]
                   /\ post.user_stake =
                        [user_stake EXCEPT
                            ![k] = [@ EXCEPT !.amount = 0, !.staked_at = 0]]
                   /\ post.stake_pool = [stake_pool EXCEPT !.total_staked = @ - a]
    /\ \A user \in Users, t \in TokenAccounts, amount \in 1..U64_MAX :
        \A r1 \in {stake(State, user, user, UserStakePda(user), t, amount)} :
            (user_stake[UserStakePda(user)].amount = 0 /\ r1.err = "Ok") =>
                \A r2 \in {unstake(r1.st, user, user, UserStakePda(user), t)} :
                    LET k == UserStakePda(user)
                        s1 == r1.st
                        s2 == Commit(s1, r2)
                    IN /\ r2.err = "Ok"
                       /\ s2.token = token
                       /\ s2.token[t] = s1.token[t] + amount
                       /\ s2.user_stake[k].amount = 0
                       /\ s2.user_stake[k].staked_at = 0
                       /\ s2.stake_pool.total_staked =
                            s1.stake_pool.total_staked - amount

\* An unstake has succeeded and the depositor holds every token again.
C3_Witness ==
    /\ last.op = "unstake"
    /\ last.err = "Ok"
    /\ user_stake[UserStakePda(last.user)].exists
    /\ user_stake[UserStakePda(last.user)].amount = 0
    /\ \E t \in AccountsOf(last.user) : token[t] = InitBalance

\* C4: a successful stake(amount) on a position holding p moves exactly amount
\* tokens from the depositor's token account to the vault, leaves the position
\* with amount = p + amount and owner = depositor, and raises total_staked by
\* amount.
C4_StakeCredits ==
    \A caller \in Users, user \in Users, k \in UserStakeKeys,
       t \in TokenAccounts, amount \in 0..U64_MAX :
        \A r \in {stake(State, caller, user, k, t, amount)} :
            r.err = "Ok" =>
                LET post == Commit(State, r)
                    p == user_stake[k].amount
                IN /\ amount > 0
                   /\ k = UserStakePda(caller)
                   /\ t \in AccountsOf(caller)
                   /\ post.token =
                        [token EXCEPT ![t] = @ - amount, ![VaultKey] = @ + amount]
                   /\ post.user_stake[k].exists
                   /\ post.user_stake[k].amount = p + amount
                   /\ post.user_stake[k].owner = caller
                   /\ \A k2 \in UserStakeKeys \ {k} :
                        post.user_stake[k2] = user_stake[k2]
                   /\ post.stake_pool = [stake_pool EXCEPT !.total_staked = @ + amount]

\* A stake has succeeded on top of a position that already held tokens.
C4_Witness ==
    /\ last.op = "stake"
    /\ last.err = "Ok"
    /\ user_stake[UserStakePda(last.user)].amount > last.moved

\* C5: for every position with amount > 0, an unstake by the position's owner
\* succeeds: neither NoStake, nor Underflow, nor the time since staked_at, nor
\* the vault's balance blocks it.
C5_OwnerCanAlwaysUnstake ==
    \A k \in UserStakeKeys :
        user_stake[k].amount > 0 =>
            LET o == user_stake[k].owner IN
            /\ o \in Users
            /\ AccountsOf(o) # {}
            /\ \A t \in AccountsOf(o) : unstake(State, o, o, k, t).err = "Ok"

\* One depositor has withdrawn while another still holds a stake made at the
\* current time.
C5_Witness ==
    /\ last.op = "unstake"
    /\ last.err = "Ok"
    /\ \E k \in UserStakeKeys : user_stake[k].amount > 0 /\ user_stake[k].staked_at = now

\* C6: a stake or unstake by an identity other than the targeted position's
\* owner fails before any mutation, and no instruction changes another
\* depositor's position or pays a caller more than the caller's own position.
C6_OnlyOwnerMovesPosition ==
    \A caller \in Users, user \in Users, k \in UserStakeKeys, t \in TokenAccounts :
        LET foreign == \/ k # UserStakePda(caller)
                       \/ (user_stake[k].exists /\ user_stake[k].owner # caller)
            own == UserStakePda(caller)
        IN /\ \A ru \in {unstake(State, caller, user, k, t)} :
                /\ foreign => (ru.err # "Ok" /\ ru.st = State)
                /\ ru.err = "Ok" =>
                    /\ \A k2 \in UserStakeKeys \ {own} :
                         ru.st.user_stake[k2] = user_stake[k2]
                    /\ \A t2 \in AccountsOf(caller) :
                         ru.st.token[t2] <= token[t2] + user_stake[own].amount
           /\ \A amount \in 0..U64_MAX :
                \A rs \in {stake(State, caller, user, k, t, amount)} :
                    /\ foreign => (rs.err # "Ok" /\ rs.st = State)
                    /\ rs.err = "Ok" =>
                        /\ \A k2 \in UserStakeKeys \ {own} :
                             rs.st.user_stake[k2] = user_stake[k2]
                        /\ \A t2 \in AccountsOf(caller) :
                             rs.st.token[t2] <= token[t2]

\* An unstake aimed at another depositor's funded position has been refused.
C6_Witness ==
    /\ last.op = "unstake"
    /\ last.err = "ConstraintSeeds"
    /\ \E k \in UserStakeKeys :
        /\ user_stake[k].amount > 0
        /\ user_stake[k].owner # last.user

\* C7: unstaking a position whose amount is 0 fails, with NoStake once the
\* accounts are accepted, and changes neither the position, nor total_staked,
\* nor any token balance.
C7_UnstakeOfEmptyFails ==
    \A k \in UserStakeKeys :
        (user_stake[k].exists /\ user_stake[k].amount = 0) =>
            \A caller \in Users, user \in Users, t \in TokenAccounts :
                \A r \in {unstake(State, caller, user, k, t)} :
                    /\ r.err # "Ok"
                    /\ r.st = State
                    /\ Commit(State, r) = State
                    /\ Unstake(State, caller, user, k, t).err = "Ok" =>
                         r.err = "NoStake"

\* An unstake of an emptied position has been answered with NoStake.
C7_Witness ==
    /\ last.op = "unstake"
    /\ last.err = "NoStake"
    /\ user_stake[UserStakePda(last.user)].exists
    /\ user_stake[UserStakePda(last.user)].amount = 0

\* C8: stake with amount = 0 fails, with ZeroAmount once the accounts are
\* accepted and before any transfer, and changes neither the position, nor
\* total_staked, nor any token balance.
C8_StakeOfZeroFails ==
    \A caller \in Users, user \in Users, k \in UserStakeKeys, t \in TokenAccounts :
        \A r \in {stake(State, caller, user, k, t, 0)},
           acc \in {StakeTokens(State, caller, user, k, t)} :
            /\ r.err # "Ok"
            /\ Commit(State, r) = State
            /\ r.st.token = token
            /\ r.st.stake_pool = stake_pool
            /\ acc.err = "Ok" => (r.err = "ZeroAmount" /\ r.st = acc.st)

\* A stake of 0 has been answered with ZeroAmount.
C8_Witness ==
    /\ last.op = "stake"
    /\ last.err = "ZeroAmount"
    /\ last.moved = 0
    /\ stake_pool.exists

\* C9: a stake whose amount would take the position's amount over the 64-bit
\* maximum fails, with Overflow once the transfer has been made, and leaves
\* the position, total_staked and the token balances unchanged; the stored
\* amount never wraps.
C9_PositionOverflowFails ==
    /\ \A k \in UserStakeKeys : user_stake[k].amount \in 0..U64_MAX
    /\ \A user \in Users, t \in TokenAccounts, amount \in 1..U64_MAX :
        user_stake[UserStakePda(user)].amount + amount > U64_MAX =>
            \A r \in {stake(State, user, user, UserStakePda(user), t, amount)} :
                LET k == UserStakePda(user) IN
                /\ r.err # "Ok"
                /\ Commit(State, r) = State
                /\ r.st.user_stake[k].amount = user_stake[k].amount
                /\ r.st.stake_pool = stake_pool
                /\ (t \in AccountsOf(user) /\ stake_pool.exists /\ token[t] >= amount) =>
                     (r.err = "Overflow" /\ r.st.token # token)

\* A stake that would overflow the position has been answered with Overflow.
C9_Witness ==
    /\ last.op = "stake"
    /\ last.err = "Overflow"
    /\ user_stake[UserStakePda(last.user)].amount + last.moved > U64_MAX

\* C10: when the pool credit of stake overflows although the position's own
\* addition did not, the stake is aborted: the transfer, the position's new
\* amount, its staked_at and its owner and bump are written in flight and none
\* of them is in the resulting state.
C10_PoolOverflowAborts ==
    \A user \in Users, t \in TokenAccounts, amount \in 1..U64_MAX :
        (/\ stake_pool.exists
         /\ t \in AccountsOf(user)
         /\ token[t] >= amount
         /\ user_stake[UserStakePda(user)].amount + amount <= U64_MAX
         /\ stake_pool.total_staked + amount > U64_MAX) =>
            \A r \in {stake(State, user, user, UserStakePda(user), t, amount)} :
                LET k == UserStakePda(user) IN
                /\ r.err = "Overflow"
                /\ r.st.token[VaultKey] = token[VaultKey] + amount
                /\ r.st.user_stake[k].amount = user_stake[k].amount + amount
                /\ r.st.user_stake[k].staked_at = now
                /\ r.st.user_stake[k].owner = user
                /\ r.st.user_stake[k].bump = FindBump(k)
                /\ r.st.stake_pool.total_staked = stake_pool.total_staked
                /\ Commit(State, r) = State

\* The first stake of a depositor has been answered with Overflow by the pool
\* credit alone, and the position it created in flight is gone.
C10_Witness ==
    /\ last.op = "stake"
    /\ last.err = "Overflow"
    /\ ~user_stake[UserStakePda(last.user)].exists
    /\ last.moved <= U64_MAX
    /\ stake_pool.total_staked + last.moved > U64_MAX

\* C11: when the token transfer of stake fails (the depositor's token account
\* holds less than amount), stake aborts with the transfer's error and no
\* ledger mutation: the position's amount, staked_at and owner and the pool's
\* total_staked are as before, and a position the call created is not kept.
C11_FailedTransferAborts ==
    \A user \in Users, t \in TokenAccounts, amount \in 1..U64_MAX :
        (stake_pool.exists /\ t \in AccountsOf(user) /\ token[t] < amount) =>
            \A r \in {stake(State, user, user, UserStakePda(user), t, amount)} :
                LET k == UserStakePda(user) IN
                /\ r.err = "InsufficientFunds"
                /\ r.st.token = token
                /\ r.st.stake_pool = stake_pool
                /\ r.st.user_stake[k].amount = user_stake[k].amount
                /\ r.st.user_stake[k].staked_at = user_stake[k].staked_at
                /\ r.st.user_stake[k].owner = user_stake[k].owner
                /\ Commit(State, r) = State

\* A depositor without a position has asked to stake more than the token
\* account holds; the transfer was refused and no position exists.
C11_Witness ==
    /\ last.op = "stake"
    /\ last.err = "InsufficientFunds"
    /\ last.user \in Users
    /\ ~user_stake[UserStakePda(last.user)].exists
    /\ stake_pool.total_staked > 0

\* C12: the Underflow error of unstake is unreachable: no reachable state has
\* a position whose amount exceeds total_staked, no unstake call returns
\* Underflow, and none has.
C12_UnderflowUnreachable ==
    /\ last.err # "Underflow"
    /\ \A k \in UserStakeKeys : user_stake[k].amount <= stake_pool.total_staked
    /\ \A caller \in Users, user \in Users, k \in UserStakeKeys, t \in TokenAccounts :
        unstake(State, caller, user, k, t).err # "Underflow"

\* An unstake has withdrawn the whole pool total: the subtraction met its
\* boundary, amount = total_staked.
C12_Witness ==
    /\ last.op = "unstake"
    /\ last.err = "Ok"
    /\ last.moved > 0
    /\ stake_pool.total_staked = 0

\* C13: every successful stake made at clock time T leaves the position's
\* staked_at = T, whether the position held nothing or something before: a
\* top-up never keeps the earlier staked_at.
C13_StakeRestartsClock ==
    \A caller \in Users, user \in Users, k \in UserStakeKeys,
       t \in TokenAccounts, amount \in 0..U64_MAX :
        \A r \in {stake(State, caller, user, k, t, amount)} :
            r.err = "Ok" =>
                /\ Commit(State, r).user_stake[k].staked_at = now
                /\ (user_stake[k].amount > 0 /\ user_stake[k].staked_at < now) =>
                     Commit(State, r).user_stake[k].staked_at > user_stake[k].staked_at

\* A top-up has succeeded after the clock moved on, and the position carries
\* the time of the top-up.
C13_Witness ==
    /\ last.op = "stake"
    /\ last.err = "Ok"
    /\ now > 1
    /\ user_stake[UserStakePda(last.user)].amount > last.moved
    /\ user_stake[UserStakePda(last.user)].staked_at = now

\* C14: initialize succeeds only when no pool exists and then records
\* total_staked = 0, the authority, the mint and the vault; an initialize for a
\* mint whose pool exists fails and leaves the pool (total_staked, authority,
\* token_mint, vault), every user position and every token balance unchanged.
C14_InitializeOnlyOnce ==
    \A caller \in Users, authority \in Users :
        \A r \in {initialize(State, caller, authority)} :
            /\ stake_pool.exists =>
                /\ r.err # "Ok"
                /\ r.st = State
                /\ Commit(State, r) = State
            /\ r.err = "Ok" =>
                /\ ~stake_pool.exists
                /\ caller = authority
                /\ r.st.stake_pool.exists
                /\ r.st.stake_pool.total_staked = 0
                /\ r.st.stake_pool.authority = authority
                /\ r.st.stake_pool.token_mint = PoolMint
                /\ r.st.stake_pool.vault = VaultKey
                /\ r.st.user_stake = user_stake
                /\ r.st.token = token
                /\ r.st.token[VaultKey] = 0

\* A second initialize has been refused while the pool held stakes.
C14_Witness ==
    /\ last.op = "initialize"
    /\ last.err = "AccountAlreadyInUse"
    /\ stake_pool.total_staked > 0
    /\ stake_pool.authority # last.user

\* C15: in every committed state a position with amount = 0 has
\* staked_at = 0: a position never created, one emptied by unstake, and either
\* after any failed stake or unstake.
C15_EmptyHasNoTime ==
    \A k \in UserStakeKeys : user_stake[k].amount = 0 => user_stake[k].staked_at = 0

\* A stake has failed on a position that an unstake had emptied.
C15_Witness ==
    /\ last.op = "stake"
    /\ last.err \notin {"Ok", "AccountNotSigner", "ConstraintSeeds", "ConstraintRaw"}
    /\ last.user \in Users
    /\ user_stake[UserStakePda(last.user)].exists
    /\ user_stake[UserStakePda(last.user)].amount = 0

\* C16: a position is Empty (amount = 0) or Active (amount > 0) and never
\* terminal: a successful stake leaves it Active, a successful unstake leaves
\* it Empty, no instruction destroys the record, and from an Empty position
\* stake, unstake, stake, unstake succeed one after the other.
C16_EmptyActiveCycle ==
    /\ \A caller \in Users, user \in Users, k \in UserStakeKeys, t \in TokenAccounts :
        /\ \A r \in {unstake(State, caller, user, k, t)} :
            /\ r.err = "Ok" => (r.st.user_stake[k].exists /\ r.st.user_stake[k].amount = 0)
            /\ \A k2 \in UserStakeKeys :
                 user_stake[k2].exists => Commit(State, r).user_stake[k2].exists
        /\ \A amount \in 0..U64_MAX :
            \A r \in {stake(State, caller, user, k, t, amount)} :
                /\ r.err = "Ok" =>
                     (r.st.user_stake[k].exists /\ r.st.user_stake[k].amount > 0)
                /\ \A k2 \in UserStakeKeys :
                     user_stake[k2].exists => Commit(State, r).user_stake[k2].exists
    /\ \A caller \in Users, authority \in Users, k2 \in UserStakeKeys :
        user_stake[k2].exists =>
            Commit(State, initialize(State, caller, authority)).user_stake[k2].exists
    /\ \A user \in Users, t \in TokenAccounts, amount \in 1..U64_MAX :
        LET k == UserStakePda(user) IN
        (/\ stake_pool.exists
         /\ t \in AccountsOf(user)
         /\ user_stake[k].amount = 0
         /\ token[t] >= amount
         /\ stake_pool.total_staked + amount <= U64_MAX) =>
            \A r1 \in {stake(State, user, user, k, t, amount)} :
            \A r2 \in {unstake(Commit(State, r1), user, user, k, t)} :
            \A r3 \in {stake(Commit(r1.st, r2), user, user, k, t, amount)} :
            \A r4 \in {unstake(Commit(r2.st, r3), user, user, k, t)} :
                /\ r1.err = "Ok" /\ r1.st.user_stake[k].amount > 0
                /\ r2.err = "Ok" /\ r2.st.user_stake[k].amount = 0
                /\ r3.err = "Ok" /\ r3.st.user_stake[k].amount > 0
                /\ r4.err = "Ok" /\ r4.st.user_stake[k].amount = 0
                /\ r4.st.user_stake[k].exists

\* An unstake has emptied a position whose record is kept, and its depositor
\* can stake into it again.
C16_Witness ==
    /\ last.op = "unstake"
    /\ last.err = "Ok"
    /\ user_stake[UserStakePda(last.user)].exists
    /\ user_stake[UserStakePda(last.user)].amount = 0
    /\ \E t \in AccountsOf(last.user) :
        stake(State, last.user, last.user, UserStakePda(last.user), t, 1).err = "Ok"

\* The instructions a depositor can send with accepted accounts: a stake of
\* an amount from, or an unstake into, one of the depositor's token accounts.
OpsOf(u) ==
    {[op |-> "stake", user |-> u, t |-> t, amount |-> a] :
        t \in AccountsOf(u), a \in 1..U64_MAX}
    \cup {[op |-> "unstake", user |-> u, t |-> t, amount |-> 0] : t \in AccountsOf(u)}

\* One instruction executed as one transaction on the accounts s.
Exec(s, o) ==
    IF o.op = "stake"
    THEN stake(s, o.user, o.user, UserStakePda(o.user), o.t, o.amount)
    ELSE unstake(s, o.user, o.user, UserStakePda(o.user), o.t)

\* C17: two stake/unstake transactions of different depositors, each executed
\* atomically, give the same total_staked, positions and balances in either
\* order whenever both succeed in both orders, and total_staked is then still
\* the sum of the amounts: no update of total_staked is lost.
C17_OrderIndependent ==
    \A u1 \in Users, u2 \in Users :
        u1 # u2 =>
            \A o1 \in OpsOf(u1), o2 \in OpsOf(u2) :
                \A a \in {Exec(State, o1)}, b \in {Exec(State, o2)} :
                    (a.err = "Ok" /\ b.err = "Ok") =>
                        \A ab \in {Exec(a.st, o2)}, ba \in {Exec(b.st, o1)} :
                            (ab.err = "Ok" /\ ba.err = "Ok") =>
                                /\ ab.st = ba.st
                                /\ ab.st.stake_pool.total_staked =
                                     SumAmounts(ab.st.user_stake, UserStakeKeys)
                                /\ o1.op = "stake" /\ o2.op = "stake" =>
                                     ab.st.stake_pool.total_staked =
                                        stake_pool.total_staked + o1.amount + o2.amount

\* Both depositors have staked, one after the other, and the total counts both.
C17_Witness ==
    /\ last.op = "stake"
    /\ last.err = "Ok"
    /\ \A k \in UserStakeKeys : user_stake[k].amount > 0
    /\ stake_pool.total_staked > last.moved

\* C18: stake and unstake change nothing of the pool but total_staked: once
\* initialize has run, authority, token_mint, vault, bump and vault_bump keep
\* the values it wrote, whatever instruction runs.
C18_PoolFieldsImmutable ==
    /\ stake_pool.exists =>
        /\ stake_pool.authority \in Users
        /\ stake_pool.token_mint = PoolMint
        /\ stake_pool.vault = VaultKey
        /\ stake_pool.bump = FindBump("stake_pool")
        /\ stake_pool.vault_bump = FindBump(VaultKey)
    /\ \A caller \in Users, user \in Users, k \in UserStakeKeys, t \in TokenAccounts :
        /\ \A r \in {unstake(State, caller, user, k, t)} :
            r.st.stake_pool =
                [stake_pool EXCEPT !.total_staked = r.st.stake_pool.total_staked]
        /\ \A amount \in 0..U64_MAX :
            \A r \in {stake(State, caller, user, k, t, amount)} :
                r.st.stake_pool =
                    [stake_pool EXCEPT !.total_staked = r.st.stake_pool.total_staked]
    /\ \A caller \in Users, authority \in Users :
        stake_pool.exists =>
            Commit(State, initialize(State, caller, authority)).stake_pool = stake_pool

\* Stakes and an unstake have run on a pool that a depositor other than the
\* last signer initialized.
C18_Witness ==
    /\ last.op = "unstake"
    /\ last.err = "Ok"
    /\ stake_pool.total_staked > 0
    /\ stake_pool.authority \in Users \ {last.user}

\* C19: a stake or unstake by depositor X, successful or not, leaves the
\* position (owner, amount, staked_at) and the token balances of every other
\* depositor Y unchanged.
C19_OthersUntouched ==
    \A caller \in Users, user \in Users, k \in UserStakeKeys, t \in TokenAccounts :
        LET others == {y \in Users : y # caller}
            same(post) ==
                /\ \A y \in others :
                     post.user_stake[UserStakePda(y)] = user_stake[UserStakePda(y)]
                /\ \A t2 \in TokenAccounts :
                     TokenOwner(t2) \in others => post.token[t2] = token[t2]
        IN /\ \A r \in {unstake(State, caller, user, k, t)} :
                same(r.st) /\ same(Commit(State, r))
           /\ \A amount \in 0..U64_MAX :
                \A r \in {stake(State, caller, user, k, t, amount)} :
                    same(r.st) /\ same(Commit(State, r))

\* One depositor has unstaked while the other holds a position and tokens.
C19_Witness ==
    /\ last.op = "unstake"
    /\ last.err = "Ok"
    /\ \E y \in Users \ {last.user} :
        /\ user_stake[UserStakePda(y)].amount > 0
        /\ \E t \in AccountsOf(y) : token[t] > 0

\* What a depositor holds: the tokens in the depositor's accounts of the
\* pool's mint plus the amount of the depositor's position.
RECURSIVE SumTokens(_, _)
SumTokens(tok, ts) ==
    IF ts = {} THEN 0
    ELSE LET t == CHOOSE x \in ts : TRUE
         IN tok[t] + SumTokens(tok, ts \ {t})

Holdings(s, u) == SumTokens(s.token, AccountsOf(u)) + s.user_stake[UserStakePda(u)].amount

PoolTokens(s) == SumTokens(s.token, {t \in TokenAccounts : TokenMint(t) = PoolMint})

\* C20: tokens are conserved and nobody withdraws more than they put in: no
\* instruction changes the sum of the depositors' balances and the vault, and
\* for every depositor what was staked less what was unstaked is the position's
\* amount, so balance plus position stays what the depositor started with.
C20_Conservation ==
    /\ Holdings(State, "u1") = InitBalance
    /\ Holdings(State, "u2") \in {1, InitBalance}
    /\ PoolTokens(State) = Holdings(State, "u1") + Holdings(State, "u2")
    /\ \A caller \in Users, user \in Users, k \in UserStakeKeys, t \in TokenAccounts :
        /\ \A r \in {unstake(State, caller, user, k, t)} :
            \A post \in {Commit(State, r)} :
                /\ PoolTokens(post) = PoolTokens(State)
                /\ \A u \in Users : Holdings(post, u) = Holdings(State, u)
                /\ \A u \in Users :
                     SumTokens(post.token, AccountsOf(u))
                        <= SumTokens(token, AccountsOf(u))
                            + user_stake[UserStakePda(u)].amount
        /\ \A amount \in 0..U64_MAX :
            \A r \in {stake(State, caller, user, k, t, amount)} :
                \A post \in {Commit(State, r)} :
                    /\ PoolTokens(post) = PoolTokens(State)
                    /\ \A u \in Users : Holdings(post, u) = Holdings(State, u)

\* A depositor has staked and unstaked and holds every token again, while the
\* vault keeps the other depositor's stake.
C20_Witness ==
    /\ last.op = "unstake"
    /\ last.err = "Ok"
    /\ user_stake[UserStakePda(last.user)].amount = 0
    /\ SumTokens(token, AccountsOf(last.user)) = Holdings(State, last.user)
    /\ token[VaultKey] > 0

====
